---- MODULE Spec2Model ----
(***************************************************************************)
(* Multi-model AI ensemble of TradeableAI.                                 *)
(*                                                                         *)
(*   MultiModelAIService  src/server/services/investment-analysis-service.ts*)
(*   callGeminiAPI        src/server/services/gemini-service.ts             *)
(*   AI_ENSEMBLE_CONFIG, AIEnsembleConfigManager   src/unnamed/part_010     *)
(*                                                                         *)
(* Numbers: a confidence is an integer number of thousandths (0.85 is 850),*)
(* a time is an integer number of milliseconds.  A quotient the code       *)
(* returns is kept exact as a record [n, d]; d = 0 is the IEEE result of a *)
(* division by zero: n = 0 is NaN (0/0, Infinity/Infinity), n > 0 is       *)
(* Infinity.                                                               *)
(***************************************************************************)
EXTENDS Integers, Sequences, FiniteSets, TLC

VARIABLES
    apiKey,     \* MultiModelAIService.apiKey is a non-empty string
    pc,         \* where generateEnsembleResponse stands
    request,    \* its arguments: query, marketContext, options
    analyzer,   \* per analyzer: its promise and the requests it has in flight
    synthCall,  \* callGeminiAPI of synthesizeResponses: none, pending, returned, threw
    weights,    \* the weights synthesizeResponses computed for its prompt
    result,     \* what generateEnsembleResponse returned (or threw)
    performanceHistory, \* AIEnsembleConfigManager.performanceHistory (a Map)
    appended,   \* per model name, every sample ever passed to
                \* updatePerformanceMetrics, in arrival order (history variable)
    ret,        \* what the last call of the configuration manager returned
    config,     \* AIEnsembleConfigManager.config
    weighIn,    \* the ModelResponse list handed to a weighting function
    weighOut,   \* the weighting function applied to it and what it returned
    lastSettled, \* the analyzer whose promise settled last (history variable)
    route,      \* POST /enhanced: where the handler stands, what it computed
                \* and what it answered
    localIn,    \* the input handed to a local fallback of the service
    localOut,   \* the ModelResponse the fallback returned
    call        \* one call of callHuggingFaceModel: its abort timer, its
                \* fetch, the reading of the response and how it settled

ensembleVars ==
    <<apiKey, pc, request, analyzer, synthCall, weights, result, lastSettled>>
managerVars == <<performanceHistory, appended, ret, config>>
strategyVars == <<weighIn, weighOut>>
routeVars == <<route>>
localVars == <<localIn, localOut>>
callVars == <<call>>
vars == <<ensembleVars, managerVars, strategyVars, routeVars, localVars, callVars>>

(***************************************************************************)
(* Bounds of the model.                                                    *)
(***************************************************************************)
\* headlines in marketContext.recentNews of a full context
MaxNews == 1
\* calls of updatePerformanceMetrics in one run
MaxUpdates == 102
\* per model, the first samples whose values are free; later samples repeat
\* the steady values, so that a history can outgrow its limit
FreeSamples == 1
\* length of the list handed to a weighting function
MaxResponses == 2

(***************************************************************************)
(* Small helpers.                                                          *)
(***************************************************************************)
Min(a, b) == IF a < b THEN a ELSE b

\* a quotient a / b as JavaScript computes it (a, b >= 0)
Quot(a, b) == [n |-> a, d |-> b]
IsNaN(x) == x.d = 0 /\ x.n = 0
IsFinite(x) == x.d # 0
Num(k) == Quot(k, 1)
NaN == Quot(0, 0)
Infinity == Quot(1, 0)

RECURSIVE Gcd(_, _)
Gcd(a, b) == IF b = 0 THEN a ELSE Gcd(b, a % b)

\* the same finite number in lowest terms
Reduce(x) ==
    IF x.n = 0 THEN Quot(0, 1)
    ELSE Quot(x.n \div Gcd(x.n, x.d), x.d \div Gcd(x.n, x.d))

\* x + y and x / y of JavaScript numbers (non-negative, NaN and Infinity
\* included)
JsAdd(x, y) ==
    IF IsNaN(x) \/ IsNaN(y) THEN NaN
    ELSE IF ~IsFinite(x) \/ ~IsFinite(y) THEN Infinity
    ELSE Reduce(Quot(x.n * y.d + y.n * x.d, x.d * y.d))

JsDiv(x, y) ==
    IF IsNaN(x) \/ IsNaN(y) THEN NaN
    ELSE IF ~IsFinite(x) THEN (IF ~IsFinite(y) THEN NaN ELSE Infinity)
    ELSE IF ~IsFinite(y) THEN Quot(0, 1)
    ELSE IF y.n = 0 THEN (IF x.n = 0 THEN NaN ELSE Infinity)
    ELSE Reduce(Quot(x.n * y.d, x.d * y.n))

RECURSIVE JsSum(_)
\* reduce((sum, x) => sum + x, 0)
JsSum(xs) == IF xs = <<>> THEN Num(0) ELSE JsAdd(Head(xs), JsSum(Tail(xs)))

\* Math.round(a / b) and Number((a / b).toFixed(k)) in units of the last
\* digit kept; NaN when the quotient is 0 / 0
Round(a, b) == IF b = 0 THEN NaN ELSE Num((2 * a + b) \div (2 * b))

\* x <= y for finite quotients with positive denominators
QLeq(x, y) == x.n * y.d <= y.n * x.d

(***************************************************************************)
(* The analyzers, in the order generateEnsembleResponse dispatches them.   *)
(***************************************************************************)
AnalyzerOrder == <<"gemini", "finbert", "cryptobert", "news", "technical">>
Analyzers == {AnalyzerOrder[i] : i \in DOMAIN AnalyzerOrder}

\* the weightingStrategy names the options type admits
OrchestratorStrategies == {"confidence", "equal", "performance"}

\* marketContext: null, an object with no field, or the route's full context
\* (topCoin, stats, recentNews); change is topCoin.priceChange24h in
\* hundredths of a percent, volume is topCoin.volume24h in millions
Contexts ==
    {[shape |-> "null", change |-> 0, volume |-> 0, news |-> 0],
     [shape |-> "empty", change |-> 0, volume |-> 0, news |-> 0],
     [shape |-> "full", change |-> 750, volume |-> 250, news |-> MaxNews]}

\* further contexts of getTechnicalAnalysis: { coins: [coin] } with no
\* topCoin, and a topCoin one of whose numeric fields is neither a number
\* nor a string (an array, a boolean), on which formatNumber calls toFixed
TechnicalContexts ==
    {[shape |-> "empty", change |-> 0, volume |-> 0, news |-> 0],
     [shape |-> "full", change |-> 750, volume |-> 250, news |-> 0],
     [shape |-> "coins", change |-> -250, volume |-> 50, news |-> 0],
     [shape |-> "oddField", change |-> 0, volume |-> 0, news |-> 0]}

\* the query, as far as the keyword lexicon sees it: how many positive and
\* how many negative words of the lexicon it contains
Queries == {[pos |-> 2, neg |-> 0], [pos |-> 1, neg |-> 1]}

\* the confidence or score field of a classifier response; 0 stands for a
\* response with no positive numeric score (a nested array, a missing field)
Scores == {0, 900}

\* Date.now() - startTime of an analyzer that awaited a backend
Latencies == {35}

NoValue == [source |-> "none"]
NoResult == [kind |-> "none"]
Undefined == [kind |-> "undefined"]
NoWeighting == [by |-> "none"]
\* what a call of the configuration manager about this model returned
Returned(modelName, value) == [model |-> modelName, value |-> value]
\* a Map with no key
EmptyMap == [m \in {} |-> <<>>]
\* generateEnsembleResponse rejects with this error
Thrown(message) == [kind |-> "thrown", message |-> message]

ModelResponse(src, conf, type, detail, time) ==
    [source |-> src, confidence |-> conf, type |-> type, detail |-> detail,
     processingTime |-> time]

Fulfilled(v) == [st |-> "fulfilled", value |-> v]
Rejected == [st |-> "rejected", value |-> NoValue]

(***************************************************************************)
(* Helper methods of MultiModelAIService.                                  *)
(***************************************************************************)
\* sum and cnt are the sum and the number of the positive numeric scores
calculateAverageConfidence(sum, cnt) ==
    IF cnt > 0 THEN sum \div cnt ELSE 500

\* getCryptoKeywordAnalysis without Math.min: the confidence is not capped
getCryptoKeywordAnalysis_NoCap(query, time) ==
    LET sentiment == IF query.pos > query.neg THEN "positive"
                     ELSE IF query.neg > query.pos THEN "negative"
                     ELSE "neutral"
        confidence == IF query.pos > query.neg THEN 500 + query.pos * 100
                      ELSE IF query.neg > query.pos THEN 500 + query.neg * 100
                      ELSE 500
    IN  ModelResponse("Crypto-Keywords", confidence, "crypto_keyword_analysis",
                      sentiment, time)

getCryptoKeywordAnalysis(query, time) ==
    LET sentiment == IF query.pos > query.neg THEN "positive"
                     ELSE IF query.neg > query.pos THEN "negative"
                     ELSE "neutral"
        confidence == IF query.pos > query.neg THEN Min(800, 500 + query.pos * 100)
                      ELSE IF query.neg > query.pos THEN Min(800, 500 + query.neg * 100)
                      ELSE 500
    IN  ModelResponse("Crypto-Keywords", confidence, "crypto_keyword_analysis",
                      sentiment, time)

\* getRuleBasedTechnicalAnalysis with >= and <= at the strong thresholds
getRuleBasedTechnicalAnalysis_Inclusive(data, time) ==
    LET priceChange == data.change
        analysis == IF priceChange >= 500 THEN "Strong bullish momentum detected"
                    ELSE IF priceChange > 200 THEN "Moderate upward movement"
                    ELSE IF priceChange <= -500 THEN "Strong bearish pressure"
                    ELSE IF priceChange < -200 THEN "Moderate downward pressure"
                    ELSE "Sideways price action"
    IN  ModelResponse("Rule-Based-Technical", 600, "rule_based_technical",
                      analysis, time)

getRuleBasedTechnicalAnalysis(data, time) ==
    LET priceChange == data.change
        analysis == IF priceChange > 500 THEN "Strong bullish momentum detected"
                    ELSE IF priceChange > 200 THEN "Moderate upward movement"
                    ELSE IF priceChange < -500 THEN "Strong bearish pressure"
                    ELSE IF priceChange < -200 THEN "Moderate downward pressure"
                    ELSE "Sideways price action"
    IN  ModelResponse("Rule-Based-Technical", 600, "rule_based_technical",
                      analysis, time)

(***************************************************************************)
(* The analyzers.  An analyzer's record holds its promise (st, value) and  *)
(* the requests it has in flight:                                          *)
(*   wait  fetches of callHuggingFaceModel awaiting the response, their    *)
(*         30 s abort timer armed                                          *)
(*   body  responses of callHuggingFaceModel being read (response.json(),  *)
(*         response.text()), the timer cleared                             *)
(*   llm   fetches of callGeminiAPI, which sets no timer                   *)
(*   left  calls the current await still needs; sum, cnt: the positive     *)
(*         scores returned so far                                          *)
(*   threw whether a call the analyzer awaited threw                       *)
(***************************************************************************)
NotDispatched ==
    [st |-> "none", value |-> NoValue, phase |-> 0, wait |-> 0, body |-> 0,
     llm |-> 0, left |-> 0, sum |-> 0, cnt |-> 0, threw |-> FALSE]

Pending(phase, wait, llm) ==
    [NotDispatched EXCEPT !.st = "pending", !.phase = phase, !.wait = wait,
                          !.llm = llm, !.left = wait + llm]

\* the promise settles; the method's locals are dead from here on
Settle(rec, s) ==
    [rec EXCEPT !.st = s.st, !.value = s.value, !.phase = 0, !.left = 0,
                !.sum = 0, !.cnt = 0]

\* getFinancialSentimentAnalysis: the context sentences that are non-empty
\* (one for topCoin, one for stats)
contextTexts(context) ==
    IF context.shape = "full" THEN 2
    ELSE IF context.shape = "oddField" THEN 1
    ELSE 0

\* getNewsAnalysis: the query and up to 3 headlines
newsTexts(context) == 1 + Min(3, context.news)

\* the analyzer's method up to its first await
Dispatch(a, context) ==
    CASE a = "gemini" -> Pending(1, 0, 1)
      [] a = "finbert" -> Pending(1, 1, 0)
      [] a = "cryptobert" -> Pending(1, 1, 0)
      [] a = "news" ->
            IF context.shape = "null" THEN Settle(NotDispatched, Rejected)
            ELSE Pending(1, newsTexts(context), 0)
      [] a = "technical" ->
            IF context.shape \in {"null", "oddField"}
            THEN Settle(NotDispatched, Rejected)
            ELSE IF context.shape = "empty"
            THEN Settle(NotDispatched,
                        Fulfilled(ModelResponse("Technical-Analysis", 300,
                                                "technical_analysis",
                                                "Insufficient technical data for analysis", 0)))
            ELSE Pending(1, 1, 0)

\* getGeminiAnalysis after callGeminiAPI returned (ok) or threw
getGeminiAnalysis(ok, time) ==
    IF ok
    THEN Fulfilled(ModelResponse("Gemini-2.0-Flash", 850, "comprehensive_analysis",
                                 "", time))
    ELSE Rejected

\* getCryptoSentimentAnalysis without its catch: a failed call rejects
getCryptoSentimentAnalysis_NoFallback(ok, score, query, time) ==
    IF ok
    THEN Fulfilled(ModelResponse("CryptoBERT", IF score > 0 THEN score ELSE 700,
                                 "crypto_sentiment", "", time))
    ELSE Rejected

\* getCryptoSentimentAnalysis after callHuggingFaceModel returned a response
\* whose confidence field is score (ok) or threw
getCryptoSentimentAnalysis(ok, score, query, time) ==
    IF ok
    THEN Fulfilled(ModelResponse("CryptoBERT", IF score > 0 THEN score ELSE 700,
                                 "crypto_sentiment", "", time))
    ELSE Fulfilled(getCryptoKeywordAnalysis(query, time))

\* getTechnicalAnalysis after callHuggingFaceModel returned (ok) or threw
getTechnicalAnalysis(ok, context, time) ==
    IF ok
    THEN Fulfilled(ModelResponse("Technical-Analyzer", 750, "technical_analysis",
                                 "", time))
    ELSE Fulfilled(getRuleBasedTechnicalAnalysis(context, time))

\* the record of a pending analyzer after one of its awaited calls returned
\* a response with this score
OnCallOk(a, rec, score, req, time) ==
    LET acc == [rec EXCEPT !.left = rec.left - 1,
                           !.sum = rec.sum + score,
                           !.cnt = rec.cnt + (IF score > 0 THEN 1 ELSE 0)]
        avg == calculateAverageConfidence(acc.sum, acc.cnt)
    IN  CASE a = "cryptobert" ->
               Settle(acc, getCryptoSentimentAnalysis(TRUE, score, req.query, time))
          [] a = "technical" ->
               Settle(acc, getTechnicalAnalysis(TRUE, req.context, time))
          [] a = "finbert" /\ rec.phase = 1 ->
               IF req.context.shape = "null" THEN Settle(acc, Rejected)
               ELSE IF contextTexts(req.context) = 0
               THEN Settle(acc, Fulfilled(ModelResponse("FinBERT", avg,
                                          "financial_sentiment", "", time)))
               ELSE [acc EXCEPT !.phase = 2,
                                !.wait = rec.wait + contextTexts(req.context),
                                !.left = contextTexts(req.context)]
          [] a = "finbert" /\ rec.phase = 2 ->
               IF acc.left = 0
               THEN Settle(acc, Fulfilled(ModelResponse("FinBERT", avg,
                                          "financial_sentiment", "", time)))
               ELSE acc
          [] a = "news" ->
               IF acc.left = 0
               THEN Settle(acc, Fulfilled(ModelResponse("News-RoBERTa", avg,
                                          "news_analysis", "", time)))
               ELSE acc

\* the record of a pending analyzer after one of its awaited calls threw
OnCallFail(a, rec, req, time) ==
    LET r == [rec EXCEPT !.threw = TRUE]
    IN  CASE a = "cryptobert" ->
               Settle(r, getCryptoSentimentAnalysis(FALSE, 0, req.query, time))
          [] a = "technical" ->
               Settle(r, getTechnicalAnalysis(FALSE, req.context, time))
          [] OTHER -> Settle(r, Rejected)

(***************************************************************************)
(* Consensus, weights and synthesis.                                       *)
(***************************************************************************)
RECURSIVE SumConfidence(_)
SumConfidence(responses) ==
    IF responses = <<>> THEN 0
    ELSE Head(responses).confidence + SumConfidence(Tail(responses))

RECURSIVE SumSquares(_)
SumSquares(responses) ==
    IF responses = <<>> THEN 0
    ELSE Head(responses).confidence * Head(responses).confidence
         + SumSquares(Tail(responses))

\* calculateConsensusScore without the clamp
calculateConsensusScore_NoClamp(responses) ==
    IF Len(responses) < 2 THEN Quot(1, 2)
    ELSE LET n == Len(responses)
             S == SumConfidence(responses)
             Q == SumSquares(responses)
             den == n * n * 1000000
         IN  Quot(den - (n * Q - S * S), den)

\* max(0.1, min(0.95, 1 - variance)); with n responses, sum S and sum of
\* squares Q the variance is (n*Q - S*S) / (n*n) in millionths
calculateConsensusScore(responses) ==
    IF Len(responses) < 2 THEN Quot(1, 2)
    ELSE LET n == Len(responses)
             S == SumConfidence(responses)
             Q == SumSquares(responses)
             den == n * n * 1000000
             raw == Quot(den - (n * Q - S * S), den)
         IN  IF QLeq(raw, Quot(1, 10)) THEN Quot(1, 10)
             ELSE IF QLeq(Quot(19, 20), raw) THEN Quot(19, 20)
             ELSE raw

calculateModelWeights(responses, strategy) ==
    IF strategy \in {"confidence", "performance"}
    THEN [i \in DOMAIN responses |->
             Quot(responses[i].confidence, SumConfidence(responses))]
    ELSE [i \in DOMAIN responses |-> Quot(1, Len(responses))]

Part(label, text) == [label |-> label, text |-> text]

RECURSIVE SourceParts(_, _)
SourceParts(label, responses) ==
    IF responses = <<>> THEN <<>>
    ELSE <<Part(label, Head(responses).source)>>
         \o SourceParts(label, Tail(responses))

RECURSIVE FirstAbove(_, _)
\* responses.filter((r) => r.confidence > 0.7)[0], or NoValue
FirstAbove(responses, threshold) ==
    IF responses = <<>> THEN NoValue
    ELSE IF Head(responses).confidence > threshold THEN Head(responses)
    ELSE FirstAbove(Tail(responses), threshold)

ApologyText ==
    <<Part("text", "I apologize, but I couldn't generate a comprehensive analysis due to technical difficulties. Please try again.")>>

\* the text fallbackSynthesis builds, as the sequence of its parts
fallbackSynthesis(responses) ==
    IF Len(responses) = 0
    THEN <<Part("text", "Unable to provide analysis at this time.")>>
    ELSE LET high == FirstAbove(responses, 700)
             primaryResponse == IF high # NoValue THEN high ELSE responses[1]
         IN  <<Part("text", "Based on multi-model AI analysis:"),
               Part("primary", primaryResponse.source)>>
             \o (IF Len(responses) > 1
                 THEN <<Part("text", "Supporting insights from additional models:")>>
                      \o SourceParts("supporting", Tail(responses))
                 ELSE <<>>)
             \o <<Part("text", "Models consulted:")>>
             \o SourceParts("consulted", responses)
             \o <<Part("text", "Remember: This is a learning tool to help you understand trading better!")>>

\* synthesizeResponses without its catch: the error of callGeminiAPI escapes
synthesizeResponses_NoCatch(responses, geminiOk) ==
    IF Len(responses) = 0 THEN [thrown |-> FALSE, text |-> ApologyText]
    ELSE IF geminiOk
    THEN [thrown |-> FALSE, text |-> <<Part("llm", "synthesis")>>]
    ELSE [thrown |-> TRUE, text |-> <<>>]

\* synthesizeResponses once its callGeminiAPI returned (geminiOk) or threw
synthesizeResponses(responses, geminiOk) ==
    IF Len(responses) = 0 THEN [thrown |-> FALSE, text |-> ApologyText]
    ELSE IF geminiOk
    THEN [thrown |-> FALSE, text |-> <<Part("llm", "synthesis")>>]
    ELSE [thrown |-> FALSE, text |-> fallbackSynthesis(responses)]

EnsembleResponse(final, contributions, score, methodology) ==
    [kind |-> "returned", finalResponse |-> final,
     modelContributions |-> contributions, consensusScore |-> score,
     methodology |-> methodology]

\* the catch block of generateEnsembleResponse
catchBlock(message, modelResponses) ==
    EnsembleResponse(<<Part("text", "Analysis failed:"), Part("error", message)>>,
                     modelResponses, Quot(0, 1),
                     "Analysis failed due to technical error")

\* no degraded response: the total failure is thrown
noValidResponse_Throws == Thrown("All models failed to generate a response")

\* generateEnsembleResponse when no analyzer succeeded
noValidResponse ==
    EnsembleResponse(ApologyText, <<>>, Quot(0, 1),
                     "No models were able to generate a response")

\* generateEnsembleResponse from the end of synthesizeResponses on
ensembleReturn(modelResponses, synthesis, strategy) ==
    IF synthesis.thrown
    THEN catchBlock("synthesis", modelResponses)
    ELSE EnsembleResponse(synthesis.text, modelResponses,
                          calculateConsensusScore(modelResponses), strategy)

RECURSIVE allSettled_FailFast(_, _)
\* Promise.all in place of Promise.allSettled: one rejection loses the batch
allSettled_FailFast(an, order) ==
    IF \E a \in DOMAIN an : an[a].st = "rejected" THEN <<>>
    ELSE IF order = <<>> THEN <<>>
    ELSE (IF an[Head(order)].st = "fulfilled" THEN <<an[Head(order)].value>>
          ELSE <<>>)
         \o allSettled_FailFast(an, Tail(order))

RECURSIVE allSettled_CompletionOrder(_, _)
\* each promise pushes its value when it completes: the value of the
\* analyzer that completed last comes last
allSettled_CompletionOrder(an, order) ==
    IF order = <<>> THEN <<>>
    ELSE LET a == Head(order)
             rest == allSettled_CompletionOrder(an, Tail(order))
         IN  IF an[a].st # "fulfilled" THEN rest
             ELSE IF a = lastSettled THEN rest \o <<an[a].value>>
             ELSE <<an[a].value>> \o rest

RECURSIVE allSettled(_, _)
\* results.forEach: the values of the fulfilled promises, in dispatch order
allSettled(an, order) ==
    IF order = <<>> THEN <<>>
    ELSE (IF an[Head(order)].st = "fulfilled" THEN <<an[Head(order)].value>>
          ELSE <<>>)
         \o allSettled(an, Tail(order))

modelResponses == allSettled(analyzer, AnalyzerOrder)

\* Promise.race in place of Promise.allSettled: the first settled promise
\* resolves the await
everySettled_Race(an) == \E a \in DOMAIN an : an[a].st \in {"fulfilled", "rejected"}

\* await Promise.allSettled(modelPromises) resolves: no promise is pending
everySettled(an) == \A a \in DOMAIN an : an[a].st # "pending"

(***************************************************************************)
(* AI_ENSEMBLE_CONFIG: the static table the manager is constructed from.   *)
(* A weight and a threshold are in thousandths, a cost is in units of      *)
(* 0.0001, a timeout is in milliseconds.                                   *)
(***************************************************************************)
\* the keys of AI_ENSEMBLE_CONFIG.models
ConfiguredModels ==
    {"gemini", "finbert", "cryptobert", "newsRoberta", "technicalAnalyzer"}

\* AI_ENSEMBLE_CONFIG.models[key].enabled
StaticEnabled == [key \in ConfiguredModels |-> TRUE]

\* AI_ENSEMBLE_CONFIG.models[key].weight
modelWeight(key) ==
    CASE key = "gemini" -> 1000
      [] key = "finbert" -> 800
      [] key = "cryptobert" -> 700
      [] key = "newsRoberta" -> 600
      [] key = "technicalAnalyzer" -> 700

\* AI_ENSEMBLE_CONFIG.models[key].timeout
modelTimeout(key) ==
    CASE key = "gemini" -> 30000
      [] key = "finbert" -> 15000
      [] key = "cryptobert" -> 12000
      [] key = "newsRoberta" -> 10000
      [] key = "technicalAnalyzer" -> 8000

\* AI_ENSEMBLE_CONFIG.models[key].costPerRequest
costPerRequest(key) ==
    CASE key = "gemini" -> 200
      [] key = "finbert" -> 10
      [] key = "cryptobert" -> 15
      [] key = "newsRoberta" -> 8
      [] key = "technicalAnalyzer" -> 5

\* AI_ENSEMBLE_CONFIG.models[key].minimumConfidenceThreshold
minimumConfidenceThreshold(key) ==
    CASE key = "gemini" -> 700
      [] key = "finbert" -> 600
      [] key = "cryptobert" -> 650
      [] key = "newsRoberta" -> 600
      [] key = "technicalAnalyzer" -> 650

\* the keys of AI_ENSEMBLE_CONFIG.strategies
StrategyNames ==
    {"confidence", "equal", "performance", "adaptive", "fastResponse",
     "highAccuracy"}

\* AI_ENSEMBLE_CONFIG.strategies[name].requireMinimumModels
requireMinimumModels(name) ==
    CASE name = "confidence" -> 2
      [] name = "equal" -> 2
      [] name = "performance" -> 3
      [] name = "adaptive" -> 3
      [] name = "fastResponse" -> 2
      [] name = "highAccuracy" -> 4

\* AI_ENSEMBLE_CONFIG.strategies[name].fallbackStrategy
fallbackStrategy(name) ==
    CASE name = "confidence" -> "equal"
      [] name = "equal" -> "performance"
      [] name = "performance" -> "confidence"
      [] name = "adaptive" -> "confidence"
      [] name = "fastResponse" -> "equal"
      [] name = "highAccuracy" -> "performance"

defaultStrategy == "confidence"
\* AI_ENSEMBLE_CONFIG.globalSettings.globalTimeout
globalTimeout == 60000

\* one entry of config.models
AIModelConfig(enabled, weight, timeout, cost, threshold) ==
    [enabled |-> enabled, weight |-> weight, timeout |-> timeout,
     costPerRequest |-> cost, minimumConfidenceThreshold |-> threshold]

\* the fields of the table the manager reads; strategies stands for the keys
\* of config.strategies
AI_ENSEMBLE_CONFIG ==
    [models |-> [key \in ConfiguredModels |->
                    AIModelConfig(StaticEnabled[key], modelWeight(key),
                                  modelTimeout(key), costPerRequest(key),
                                  minimumConfidenceThreshold(key))],
     strategies |-> StrategyNames,
     defaultStrategy |-> defaultStrategy,
     globalSettings |-> [globalTimeout |-> globalTimeout]]

(***************************************************************************)
(* generateEnsembleResponse.                                               *)
(***************************************************************************)
NoRequest == [query |-> "none"]

Options ==
    [useGemini : BOOLEAN, useFinancialBert : BOOLEAN, useCryptoBert : BOOLEAN,
     useNewsAnalysis : BOOLEAN, weightingStrategy : OrchestratorStrategies]

IsEnabled(options, a) ==
    CASE a = "gemini" -> options.useGemini
      [] a = "finbert" -> options.useFinancialBert
      [] a = "cryptobert" -> options.useCryptoBert
      [] a = "news" -> options.useNewsAnalysis
      [] a = "technical" -> TRUE

\* the service before a call
EnsembleIdle ==
    /\ pc = "idle"
    /\ request = NoRequest
    /\ analyzer = [a \in Analyzers |-> NotDispatched]
    /\ synthCall = "none"
    /\ weights = <<>>
    /\ result = NoResult
    /\ lastSettled = "none"

\* new AIEnsembleConfigManager()
ManagerNew ==
    /\ performanceHistory = EmptyMap
    /\ appended = EmptyMap
    /\ ret = Returned("", Undefined)
    /\ config = AI_ENSEMBLE_CONFIG

StrategyIdle ==
    /\ weighIn = <<>>
    /\ weighOut = NoWeighting

\* no request has reached the route
NoAnswer == [status |-> 0]
RouteIdle ==
    route = [pc |-> "idle", valid |-> FALSE, message |-> NoRequest, strategy |-> "",
             enabledModels |-> <<>>, context |-> NoValue, options |-> NoValue,
             answer |-> NoAnswer]

LocalIdle ==
    /\ localIn = NoValue
    /\ localOut = NoValue

\* callHuggingFaceModel has not been called
NotCalled ==
    [pc |-> "idle", modelName |-> "", input |-> "", timer |-> "none",
     fetch |-> "none", body |-> "none", status |-> 0, outcome |-> NoResult]
CallIdle == call = NotCalled

Init ==
    /\ apiKey \in BOOLEAN
    /\ EnsembleIdle
    /\ ManagerNew
    /\ StrategyIdle
    /\ RouteIdle
    /\ LocalIdle
    /\ CallIdle

RECURSIVE LastOf(_, _, _)
\* the last analyzer of the order whose promise is settled, or none
LastOf(an, order, none) ==
    IF order = <<>> THEN none
    ELSE LastOf(an, Tail(order),
                IF an[Head(order)].st \in {"fulfilled", "rejected"}
                THEN Head(order) ELSE none)

\* the promise of this analyzer settles in this step
SettlesNow(a) == analyzer[a].st = "pending" /\ analyzer'[a].st # "pending"

\* the call, up to await Promise.allSettled (or to the return of the catch
\* block when the key is missing)
Call(query, context, options) ==
    /\ pc = "idle"
    /\ request' = [query |-> query, context |-> context, options |-> options]
    /\ IF ~apiKey
       THEN /\ result' = catchBlock("HUGGINGFACE_API_KEY is not configured", <<>>)
            /\ pc' = "done"
            /\ UNCHANGED analyzer
       ELSE /\ analyzer' = [a \in Analyzers |->
                               IF IsEnabled(options, a) THEN Dispatch(a, context)
                               ELSE NotDispatched]
            /\ pc' = "awaitAll"
            /\ UNCHANGED result
    /\ lastSettled' = LastOf(analyzer', AnalyzerOrder, "none")
    /\ UNCHANGED <<apiKey, synthCall, weights>>
    /\ UNCHANGED <<managerVars, strategyVars, routeVars, localVars, callVars>>

\* the backend answers a fetch of callHuggingFaceModel: clearTimeout
HfResponse(a) ==
    /\ analyzer[a].wait > 0
    /\ analyzer' = [analyzer EXCEPT ![a].wait = @ - 1, ![a].body = @ + 1]
    /\ UNCHANGED lastSettled
    /\ UNCHANGED <<apiKey, pc, request, synthCall, weights, result>>
    /\ UNCHANGED <<managerVars, strategyVars, routeVars, localVars, callVars>>

\* a fetch of callHuggingFaceModel rejects (network error): the call throws
HfNetworkError(a) ==
    /\ analyzer[a].wait > 0
    /\ \E time \in Latencies :
         LET rec == [analyzer[a] EXCEPT !.wait = @ - 1]
         IN  analyzer' = [analyzer EXCEPT ![a] =
                 IF rec.st = "pending" THEN OnCallFail(a, rec, request, time)
                 ELSE rec]
    /\ lastSettled' = IF SettlesNow(a) THEN a ELSE lastSettled
    /\ UNCHANGED <<apiKey, pc, request, synthCall, weights, result>>
    /\ UNCHANGED <<managerVars, strategyVars, routeVars, localVars, callVars>>

\* the 30 s timer fires: controller.abort(), the fetch rejects with
\* AbortError and the call throws the timeout error
HfTimeout(a) ==
    /\ analyzer[a].wait > 0
    /\ \E time \in Latencies :
         LET rec == [analyzer[a] EXCEPT !.wait = @ - 1]
         IN  analyzer' = [analyzer EXCEPT ![a] =
                 IF rec.st = "pending" THEN OnCallFail(a, rec, request, time)
                 ELSE rec]
    /\ lastSettled' = IF SettlesNow(a) THEN a ELSE lastSettled
    /\ UNCHANGED <<apiKey, pc, request, synthCall, weights, result>>
    /\ UNCHANGED <<managerVars, strategyVars, routeVars, localVars, callVars>>

\* response.json() of a 2xx response returns
HfBodyOk(a) ==
    /\ analyzer[a].body > 0
    /\ \E score \in Scores, time \in Latencies :
         LET rec == [analyzer[a] EXCEPT !.body = @ - 1]
         IN  analyzer' = [analyzer EXCEPT ![a] =
                 IF rec.st = "pending" THEN OnCallOk(a, rec, score, request, time)
                 ELSE rec]
    /\ lastSettled' = IF SettlesNow(a) THEN a ELSE lastSettled
    /\ UNCHANGED <<apiKey, pc, request, synthCall, weights, result>>
    /\ UNCHANGED <<managerVars, strategyVars, routeVars, localVars, callVars>>

\* the response is not 2xx (response.text() read, then throw), or
\* response.json() throws
HfBodyFail(a) ==
    /\ analyzer[a].body > 0
    /\ \E time \in Latencies :
         LET rec == [analyzer[a] EXCEPT !.body = @ - 1]
         IN  analyzer' = [analyzer EXCEPT ![a] =
                 IF rec.st = "pending" THEN OnCallFail(a, rec, request, time)
                 ELSE rec]
    /\ lastSettled' = IF SettlesNow(a) THEN a ELSE lastSettled
    /\ UNCHANGED <<apiKey, pc, request, synthCall, weights, result>>
    /\ UNCHANGED <<managerVars, strategyVars, routeVars, localVars, callVars>>

\* callGeminiAPI of getGeminiAnalysis returns or throws
GeminiAnswer(ok) ==
    /\ analyzer["gemini"].llm > 0
    /\ \E time \in Latencies :
         analyzer' = [analyzer EXCEPT !["gemini"] =
             Settle([@ EXCEPT !.llm = 0, !.threw = ~ok], getGeminiAnalysis(ok, time))]
    /\ lastSettled' = "gemini"
    /\ UNCHANGED <<apiKey, pc, request, synthCall, weights, result>>
    /\ UNCHANGED <<managerVars, strategyVars, routeVars, localVars, callVars>>

\* the continuation of await Promise.allSettled, up to the return of the
\* degraded response or to the await of synthesizeResponses
AllSettled ==
    /\ pc = "awaitAll"
    /\ everySettled(analyzer)
    /\ IF modelResponses = <<>>
       THEN /\ result' = noValidResponse
            /\ pc' = "done"
            /\ UNCHANGED <<weights, synthCall>>
       ELSE /\ weights' = calculateModelWeights(modelResponses,
                                                request.options.weightingStrategy)
            /\ synthCall' = "pending"
            /\ pc' = "synth"
            /\ UNCHANGED result
    /\ UNCHANGED <<apiKey, request, analyzer, lastSettled>>
    /\ UNCHANGED <<managerVars, strategyVars, routeVars, localVars, callVars>>

\* callGeminiAPI of synthesizeResponses returns or throws; the rest of
\* generateEnsembleResponse
SynthesisAnswer(ok) ==
    /\ pc = "synth"
    /\ synthCall' = IF ok THEN "returned" ELSE "threw"
    /\ result' = ensembleReturn(modelResponses,
                                synthesizeResponses(modelResponses, ok),
                                request.options.weightingStrategy)
    /\ pc' = "done"
    /\ UNCHANGED <<apiKey, request, analyzer, weights, lastSettled>>
    /\ UNCHANGED <<managerVars, strategyVars, routeVars, localVars, callVars>>

Next ==
    \/ \E q \in Queries, c \in Contexts, o \in Options : Call(q, c, o)
    \/ \E a \in Analyzers : HfResponse(a)
    \/ \E a \in Analyzers : HfNetworkError(a)
    \/ \E a \in Analyzers : HfTimeout(a)
    \/ \E a \in Analyzers : HfBodyOk(a)
    \/ \E a \in Analyzers : HfBodyFail(a)
    \/ \E ok \in BOOLEAN : GeminiAnswer(ok)
    \/ AllSettled
    \/ \E ok \in BOOLEAN : SynthesisAnswer(ok)

Spec == Init /\ [][Next]_vars

(***************************************************************************)
(* AIEnsembleConfigManager: the performance history.                       *)
(***************************************************************************)
\* history.length > 100
MAX_HISTORY == 100

\* the names updatePerformanceMetrics is called with: a key of config.models
\* and a source name of a ModelResponse
UpdatedNames == {"gemini", "Gemini-2.0-Flash"}
\* the names getModelPerformance is called with
QueriedNames == UpdatedNames

SampleConfidences == {650, 850}
SteadyConfidence == CHOOSE c \in SampleConfidences : \A d \in SampleConfidences : d <= c
SampleTimes == Latencies

Metrics(responseTime, confidence, timestamp) ==
    [responseTime |-> responseTime, confidence |-> confidence,
     timestamp |-> timestamp]

\* updatePerformanceMetrics with one array shared by every model
updatePerformanceMetrics_Shared(history, modelName, metrics) ==
    LET Pushed(m) == Append(IF m \in DOMAIN history THEN history[m] ELSE <<>>,
                            metrics)
    IN  [m \in DOMAIN history \cup {modelName} |->
            IF Len(Pushed(m)) > MAX_HISTORY THEN Tail(Pushed(m)) ELSE Pushed(m)]

\* updatePerformanceMetrics with pop() in place of shift()
updatePerformanceMetrics_DropNewest(history, modelName, metrics) ==
    LET had == IF modelName \in DOMAIN history THEN history[modelName] ELSE <<>>
        pushed == Append(had, metrics)
        kept == IF Len(pushed) > MAX_HISTORY THEN had ELSE pushed
    IN  [m \in DOMAIN history \cup {modelName} |->
            IF m = modelName THEN kept ELSE history[m]]

\* the Map after updatePerformanceMetrics(modelName, metrics)
updatePerformanceMetrics(history, modelName, metrics) ==
    LET had == IF modelName \in DOMAIN history THEN history[modelName] ELSE <<>>
        pushed == Append(had, metrics)
        kept == IF Len(pushed) > MAX_HISTORY THEN Tail(pushed) ELSE pushed
    IN  [m \in DOMAIN history \cup {modelName} |->
            IF m = modelName THEN kept ELSE history[m]]

RECURSIVE SumField(_, _)
SumField(history, field) ==
    IF history = <<>> THEN 0
    ELSE Head(history)[field] + SumField(Tail(history), field)

NoData == [kind |-> "nodata", message |-> "No performance data available"]

\* the filter of successRate: (m.confidence > threshold) || 0.5, where the
\* comparison with an undefined threshold is false and 0.5 is truthy
successFilter(confidence, modelName) ==
    \/ modelName \in ConfiguredModels
         /\ confidence > minimumConfidenceThreshold(modelName)
    \/ TRUE

Performance(history) ==
    [kind |-> "performance",
     averageResponseTime |-> Round(SumField(history, "responseTime"), Len(history)),
     averageConfidence |-> Round(SumField(history, "confidence"), Len(history)),
     totalRequests |-> Len(history)]

\* getModelPerformance without its guard: history.reduce on undefined throws
getModelPerformance_NoGuard(history, modelName) ==
    IF modelName \notin DOMAIN history \/ Len(history[modelName]) = 0
    THEN Thrown("TypeError")
    ELSE LET h == history[modelName]
             passed == Cardinality({i \in DOMAIN h :
                                       successFilter(h[i].confidence, modelName)})
         IN  Performance(h)
             @@ [successRate |-> Round(1000 * passed, Len(h)),
                 lastUpdated |-> h[Len(h)].timestamp]

getModelPerformance(history, modelName) ==
    IF modelName \notin DOMAIN history \/ Len(history[modelName]) = 0
    THEN NoData
    ELSE LET h == history[modelName]
             passed == Cardinality({i \in DOMAIN h :
                                       successFilter(h[i].confidence, modelName)})
         IN  Performance(h)
             @@ [successRate |-> Round(1000 * passed, Len(h)),
                 lastUpdated |-> h[Len(h)].timestamp]

TotalAppended ==
    LET RECURSIVE Total(_)
        Total(names) ==
            IF names = {} THEN 0
            ELSE LET m == CHOOSE x \in names : TRUE
                 IN  Len(appended[m]) + Total(names \ {m})
    IN  Total(DOMAIN appended)

\* aiConfigManager.updatePerformanceMetrics(modelName, {responseTime,
\* confidence, timestamp}); the timestamp is the sample's ordinal among the
\* samples of its model
UpdatePerformanceMetrics(modelName, responseTime, confidence) ==
    LET ordinal == IF modelName \in DOMAIN appended
                   THEN Len(appended[modelName]) + 1 ELSE 1
        metrics == Metrics(responseTime, confidence, ordinal)
    IN  /\ TotalAppended < MaxUpdates
        /\ ordinal <= FreeSamples \/ confidence = SteadyConfidence
        /\ performanceHistory' =
               updatePerformanceMetrics(performanceHistory, modelName, metrics)
        /\ appended' = [m \in DOMAIN appended \cup {modelName} |->
                           IF m = modelName
                           THEN (IF m \in DOMAIN appended
                                 THEN Append(appended[m], metrics) ELSE <<metrics>>)
                           ELSE appended[m]]
        /\ ret' = Returned("", Undefined)
        /\ UNCHANGED <<ensembleVars, config, strategyVars, routeVars, localVars, callVars>>

\* aiConfigManager.getModelPerformance(modelName)
GetModelPerformance(modelName) ==
    /\ ret' = Returned(modelName, getModelPerformance(performanceHistory, modelName))
    /\ UNCHANGED <<ensembleVars, performanceHistory, appended, config>>
    /\ UNCHANGED <<strategyVars, routeVars, localVars, callVars>>

ManagerInit ==
    /\ apiKey = TRUE
    /\ EnsembleIdle
    /\ ManagerNew
    /\ StrategyIdle
    /\ RouteIdle
    /\ LocalIdle
    /\ CallIdle

ManagerNext ==
    \/ \E m \in UpdatedNames, t \in SampleTimes, c \in SampleConfidences :
          UpdatePerformanceMetrics(m, t, c)
    \/ \E m \in QueriedNames : GetModelPerformance(m)

ManagerSpec == ManagerInit /\ [][ManagerNext]_vars

(***************************************************************************)
(* AI_ENSEMBLE_CONFIG.strategies: the weighting functions.                 *)
(***************************************************************************)
\* the performance strategy's table of historical accuracy, in hundredths
performanceScore(source) ==
    CASE source = "Gemini-2.0-Flash" -> 85
      [] source = "FinBERT" -> 78
      [] source = "CryptoBERT" -> 72
      [] source = "News-RoBERTa" -> 76
      [] source = "Technical-Analyzer" -> 70
      [] OTHER -> 60

Abs(x) == IF x < 0 THEN -x ELSE x

\* highAccuracy: r.confidence * 0.7 + (1 - |r.confidence - avg|) * 0.3, in
\* units of 1 / (10000 * n) for n responses of confidence sum S
consensusBonus(r, n, S) ==
    7 * r.confidence * n + 3 * (1000 * n - Abs(r.confidence * n - S))

\* strategies[name].weightingFunction(responses)
weightingFunction(name, responses) ==
    LET n == Len(responses)
        idx == DOMAIN responses
        totalConfidence == Num(SumConfidence(responses))
        scores == [i \in idx |-> Num(performanceScore(responses[i].source))]
        speedScores == [i \in idx |->
            JsDiv(Num(1), JsDiv(Num(responses[i].processingTime), Num(1000)))]
        bonus == [i \in idx |->
            Num(consensusBonus(responses[i], n, SumConfidence(responses)))]
    IN  CASE name \in {"confidence", "adaptive"} ->
               [i \in idx |-> JsDiv(Num(responses[i].confidence), totalConfidence)]
          [] name = "equal" ->
               [i \in idx |-> JsDiv(Num(1), Num(n))]
          [] name = "performance" ->
               [i \in idx |-> JsDiv(scores[i], JsSum(scores))]
          [] name = "fastResponse" ->
               [i \in idx |-> JsDiv(speedScores[i], JsSum(speedScores))]
          [] name = "highAccuracy" ->
               [i \in idx |-> JsDiv(bonus[i], JsSum(bonus))]

\* the responses a weighting function is applied to: a source of the
\* performance table or another one, a confidence in [0,1], a processing
\* time >= 0 ms
WeighedSources == {"Gemini-2.0-Flash", "Crypto-Keywords"}
WeighedConfidences == {0, 500, 1000}
WeighedTimes == {0, 1, 2}
WeighedResponses ==
    {ModelResponse(src, c, "", "", t) :
        src \in WeighedSources, c \in WeighedConfidences, t \in WeighedTimes}

ResponseLists == UNION {[1..n -> WeighedResponses] : n \in 1..MaxResponses}

Weighed(by, name, w) == [by |-> by, name |-> name, weights |-> w]

\* AI_ENSEMBLE_CONFIG.strategies[name].weightingFunction(weighIn)
ApplyStrategy(name) ==
    /\ weighOut = NoWeighting
    /\ weighOut' = Weighed("weightingFunction", name,
                           weightingFunction(name, weighIn))
    /\ UNCHANGED <<ensembleVars, managerVars, weighIn, routeVars, localVars, callVars>>

\* calculateModelWeights(weighIn, name) of the service
ApplyCalculateModelWeights(name) ==
    /\ weighOut = NoWeighting
    /\ weighOut' = Weighed("calculateModelWeights", name,
                           calculateModelWeights(weighIn, name))
    /\ UNCHANGED <<ensembleVars, managerVars, weighIn, routeVars, localVars, callVars>>

WeighInit ==
    /\ apiKey = TRUE
    /\ EnsembleIdle
    /\ ManagerNew
    /\ weighIn \in ResponseLists
    /\ weighOut = NoWeighting
    /\ RouteIdle
    /\ LocalIdle
    /\ CallIdle

WeighNext ==
    \/ \E name \in StrategyNames : ApplyStrategy(name)
    \/ \E name \in StrategyNames : ApplyCalculateModelWeights(name)

WeighSpec == WeighInit /\ [][WeighNext]_vars

(***************************************************************************)
(* AIEnsembleConfigManager.getOptimalConfiguration.                        *)
(***************************************************************************)
RECURSIVE SumCost(_, _)
\* enabledModels.reduce((sum, key) => sum + (model ? model.costPerRequest : 0), 0)
SumCost(models, keys) ==
    IF keys = <<>> THEN 0
    ELSE (IF Head(keys) \in DOMAIN models
          THEN models[Head(keys)].costPerRequest ELSE 0)
         + SumCost(models, Tail(keys))

QueryAnalysis(technical, sentiment, educational, complexity, urgency) ==
    [isTechnicalQuery |-> technical, isSentimentQuery |-> sentiment,
     isEducationalQuery |-> educational, complexity |-> complexity,
     urgency |-> urgency]

\* getOptimalConfiguration with the test of complexity before the test of
\* urgency
getOptimalConfiguration_ComplexFirst(cfg, queryAnalysis) ==
    LET first == <<"gemini">>
        sentiment == IF queryAnalysis.isSentimentQuery
                     THEN first \o <<"finbert", "cryptobert", "newsRoberta">>
                     ELSE first
        technical == IF queryAnalysis.isTechnicalQuery
                     THEN sentiment \o <<"technicalAnalyzer", "finbert">>
                     ELSE sentiment
        educational == IF queryAnalysis.isEducationalQuery
                       THEN Append(technical, "finbert") ELSE technical
        complex == queryAnalysis.complexity = "high"
        urgent == ~complex /\ queryAnalysis.urgency = "high"
        enabledModels == IF urgent
                         THEN SubSeq(educational, 1, Min(2, Len(educational)))
                         ELSE educational
        IsOn(key) == key \in DOMAIN cfg.models /\ cfg.models[key].enabled
    IN  [enabledModels |-> SelectSeq(enabledModels, IsOn),
         strategy |-> IF complex THEN "highAccuracy"
                      ELSE IF urgent THEN "fastResponse"
                      ELSE IF queryAnalysis.isEducationalQuery THEN "confidence"
                      ELSE cfg.defaultStrategy,
         timeout |-> IF complex THEN 60000
                     ELSE IF urgent THEN 15000
                     ELSE cfg.globalSettings.globalTimeout,
         expectedCost |-> SumCost(cfg.models, enabledModels)]

\* getOptimalConfiguration(queryAnalysis) of a manager whose this.config is
\* cfg
getOptimalConfiguration(cfg, queryAnalysis) ==
    LET first == <<"gemini">>
        sentiment == IF queryAnalysis.isSentimentQuery
                     THEN first \o <<"finbert", "cryptobert", "newsRoberta">>
                     ELSE first
        technical == IF queryAnalysis.isTechnicalQuery
                     THEN sentiment \o <<"technicalAnalyzer", "finbert">>
                     ELSE sentiment
        educational == IF queryAnalysis.isEducationalQuery
                       THEN Append(technical, "finbert") ELSE technical
        urgent == queryAnalysis.urgency = "high"
        complex == queryAnalysis.complexity = "high"
        enabledModels == IF urgent
                         THEN SubSeq(educational, 1, Min(2, Len(educational)))
                         ELSE educational
        IsOn(key) == key \in DOMAIN cfg.models /\ cfg.models[key].enabled
    IN  [enabledModels |-> SelectSeq(enabledModels, IsOn),
         strategy |-> IF urgent THEN "fastResponse"
                      ELSE IF complex THEN "highAccuracy"
                      ELSE IF queryAnalysis.isEducationalQuery THEN "confidence"
                      ELSE cfg.defaultStrategy,
         timeout |-> IF urgent THEN 15000
                     ELSE IF complex THEN 60000
                     ELSE cfg.globalSettings.globalTimeout,
         expectedCost |-> SumCost(cfg.models, enabledModels)]

(***************************************************************************)
(* AIEnsembleConfigManager: validating, updating and importing the         *)
(* configuration.                                                          *)
(***************************************************************************)
\* what a method of the manager returned for this argument
ReturnedFor(method, argument, value) ==
    [model |-> method, argument |-> argument, value |-> value]

ConfigError(message, key) == [message |-> message, model |-> key]

\* validateConfiguration() of a manager whose this.config is cfg; errors is
\* the set of the messages pushed
validateConfiguration(cfg) ==
    LET models == cfg.models
        enabledModels == {key \in DOMAIN models : models[key].enabled}
        errors ==
            (IF enabledModels = {}
             THEN {ConfigError("At least one model must be enabled", "")} ELSE {})
            \cup (IF cfg.defaultStrategy \notin cfg.strategies
                  THEN {ConfigError("Default strategy not found", "")} ELSE {})
            \cup {ConfigError("weight must be between 0 and 2", key) :
                     key \in {k \in DOMAIN models :
                                \/ models[k].weight < 0
                                \/ models[k].weight > 2000}}
            \cup {ConfigError("timeout must be between 1000 and 120000 ms", key) :
                     key \in {k \in DOMAIN models :
                                \/ models[k].timeout < 1000
                                \/ models[k].timeout > 120000}}
            \cup {ConfigError("confidence threshold must be between 0 and 1", key) :
                     key \in {k \in DOMAIN models :
                                \/ models[k].minimumConfidenceThreshold < 0
                                \/ models[k].minimumConfidenceThreshold > 1000}}
    IN  [valid |-> errors = {}, errors |-> errors]

\* { ...cfg, ...updates }
Spread(cfg, updates) ==
    [k \in DOMAIN cfg \cup DOMAIN updates |->
        IF k \in DOMAIN updates THEN updates[k] ELSE cfg[k]]

\* updateConfiguration(updates): the configuration after the call and what
\* the call returned
updateConfiguration(cfg, updates) ==
    LET merged == Spread(cfg, updates)
    IN  [config |-> merged, returned |-> validateConfiguration(merged).valid]

\* a JSON text: one that JSON.parse rejects, or the text of a configuration
Malformed == [syntax |-> FALSE]
JSONstringify(cfg) == [syntax |-> TRUE, json |-> cfg]
JSONparse(text) == IF text.syntax THEN text.json ELSE Thrown("SyntaxError")

\* exportConfiguration()
exportConfiguration(cfg) == JSONstringify(cfg)

\* importConfiguration(configJson): validateConfiguration() is called on the
\* manager, whose this.config is still cfg
importConfiguration(cfg, configJson) ==
    LET newConfig == JSONparse(configJson)
    IN  IF newConfig = Thrown("SyntaxError")
        THEN [config |-> cfg, returned |-> FALSE]
        ELSE IF validateConfiguration(cfg).valid
        THEN [config |-> newConfig, returned |-> TRUE]
        ELSE [config |-> cfg, returned |-> FALSE]

\* the tables of models passed in an update: the static table with these
\* keys enabled, or with one field of gemini changed
WithEnabled(on) ==
    [key \in ConfiguredModels |->
        [AI_ENSEMBLE_CONFIG.models[key] EXCEPT !.enabled = key \in on]]
WithGemini(field, value) ==
    [AI_ENSEMBLE_CONFIG.models EXCEPT !["gemini"][field] = value]

ModelTables ==
    {WithEnabled(on) : on \in SUBSET ConfiguredModels}
    \cup {WithGemini("weight", w) : w \in {2000, 2001}}
    \cup {WithGemini("timeout", 999), WithGemini("minimumConfidenceThreshold", 1001)}

\* "weighted" is no key of config.strategies
DefaultStrategies == {"confidence", "equal", "weighted"}

ConfigUpdates ==
    {[models |-> t] : t \in ModelTables}
    \cup {[defaultStrategy |-> s] : s \in DefaultStrategies}

ImportedConfigs ==
    {AI_ENSEMBLE_CONFIG,
     [AI_ENSEMBLE_CONFIG EXCEPT !.models = WithEnabled({"gemini", "finbert"})],
     [AI_ENSEMBLE_CONFIG EXCEPT !.models = WithEnabled({})],
     [AI_ENSEMBLE_CONFIG EXCEPT !.defaultStrategy = "weighted"]}

ImportedTexts == {Malformed} \cup {exportConfiguration(c) : c \in ImportedConfigs}

QueryAnalyses ==
    {QueryAnalysis(t, s, e, c, u) :
        t \in BOOLEAN, s \in BOOLEAN, e \in BOOLEAN,
        c \in {"medium", "high"}, u \in {"normal", "high"}}

\* aiConfigManager.updateConfiguration(updates)
UpdateConfiguration(updates) ==
    LET after == updateConfiguration(config, updates)
    IN  /\ config' = after.config
        /\ ret' = ReturnedFor("updateConfiguration", updates, after.returned)
        /\ UNCHANGED <<ensembleVars, performanceHistory, appended>>
        /\ UNCHANGED <<strategyVars, routeVars, localVars, callVars>>

\* aiConfigManager.importConfiguration(configJson)
ImportConfiguration(configJson) ==
    LET after == importConfiguration(config, configJson)
    IN  /\ config' = after.config
        /\ ret' = ReturnedFor("importConfiguration", configJson, after.returned)
        /\ UNCHANGED <<ensembleVars, performanceHistory, appended>>
        /\ UNCHANGED <<strategyVars, routeVars, localVars, callVars>>

\* aiConfigManager.getOptimalConfiguration(queryAnalysis)
GetOptimalConfiguration(queryAnalysis) ==
    /\ ret' = ReturnedFor("getOptimalConfiguration", queryAnalysis,
                          getOptimalConfiguration(config, queryAnalysis))
    /\ UNCHANGED <<ensembleVars, performanceHistory, appended, config>>
    /\ UNCHANGED <<strategyVars, routeVars, localVars, callVars>>

ConfigNext ==
    \/ \E updates \in ConfigUpdates : UpdateConfiguration(updates)
    \/ \E text \in ImportedTexts : ImportConfiguration(text)
    \/ \E q \in QueryAnalyses : GetOptimalConfiguration(q)

ConfigSpec == ManagerInit /\ [][ConfigNext]_vars

(***************************************************************************)
(* POST /enhanced: the chat route around generateEnsembleResponse.         *)
(***************************************************************************)
\* the keyword classes of determineMessageIntent a message contains
Topics == {"market", "news", "investment", "education"}

determineMessageIntent(topics) ==
    IF "market" \in topics THEN "MARKET"
    ELSE IF "news" \in topics THEN "NEWS"
    ELSE IF "investment" \in topics THEN "INVESTMENT"
    ELSE IF "education" \in topics THEN "EDUCATION"
    ELSE "GENERAL"

\* the words the route looks for in the intent that the intent contains:
\* String.prototype.includes is case-sensitive, the intents are upper-case
\* constants and every word looked for is lower-case
WordsOf(intent) ==
    {w \in {"technical", "chart", "sentiment", "feeling", "explain", "what is",
            "complex", "detailed", "urgent", "quick"} : w = intent}

routeQueryAnalysis(intent) ==
    LET includes(word) == word \in WordsOf(intent)
    IN  QueryAnalysis(includes("technical") \/ includes("chart"),
                      includes("sentiment") \/ includes("feeling"),
                      includes("explain") \/ includes("what is"),
                      IF includes("complex") \/ includes("detailed")
                      THEN "high" ELSE "medium",
                      IF includes("urgent") \/ includes("quick")
                      THEN "high" ELSE "normal")

\* req.body: message is a non-empty string (valid) or not; topics and query
\* are what determineMessageIntent and the keyword lexicon see of it;
\* aiStrategy is preferences?.aiStrategy ("" when absent)
RouteStrategies == {"", "equal", "performance", "highAccuracy"}
Bodies ==
    {[valid |-> FALSE, topics |-> {}, query |-> [pos |-> 0, neg |-> 0],
      aiStrategy |-> ""]}
    \cup {[valid |-> TRUE, topics |-> t, query |-> q, aiStrategy |-> s] :
            t \in {{}, {"market", "education"}}, q \in Queries,
            s \in RouteStrategies}

\* storage.getMarketData() and storage.getMarketStats(): the stored sample
\* data, with no headline
storedContext == [shape |-> "full", change |-> 0, volume |-> 250, news |-> 0]

Gathered(context) == [thrown |-> FALSE, context |-> context]
GatherThrew == [thrown |-> TRUE, context |-> NoValue]

\* gatherMarketContext with no catch: a provider's error escapes
gatherMarketContext_NoFallback(live, news) ==
    IF live
    THEN Gathered([shape |-> "full", change |-> 0, volume |-> 250, news |-> news])
    ELSE GatherThrew

\* gatherMarketContext: the providers answer (live; topCoin carries
\* priceChangePercent24h and no priceChange24h) or one of them throws and the
\* stored data is used
gatherMarketContext(live, news) ==
    IF live
    THEN Gathered([shape |-> "full", change |-> 0, volume |-> 250, news |-> news])
    ELSE Gathered(storedContext)

Has(keys, key) == \E i \in DOMAIN keys : keys[i] = key

\* modelOptions of the route
modelOptions(optimalConfig, aiStrategy) ==
    [useGemini |-> Has(optimalConfig.enabledModels, "gemini"),
     useFinancialBert |-> Has(optimalConfig.enabledModels, "finbert"),
     useCryptoBert |-> Has(optimalConfig.enabledModels, "cryptobert"),
     useNewsAnalysis |-> Has(optimalConfig.enabledModels, "newsRoberta"),
     weightingStrategy |-> IF aiStrategy # "" THEN aiStrategy
                           ELSE optimalConfig.strategy]

\* the answers of the route
BadRequest == [status |-> 400, success |-> FALSE, kind |-> "INVALID_REQUEST"]
ServiceUnavailable ==
    [status |-> 503, success |-> FALSE, kind |-> "AI_RESPONSE_FAILED"]
SingleModelAnswer == [status |-> 200, success |-> TRUE, kind |-> "single-model"]
EnsembleAnswer(ensembleResult) ==
    [status |-> 200, success |-> TRUE, kind |-> "ensemble",
     content |-> ensembleResult.finalResponse,
     modelsUsed |-> [i \in DOMAIN ensembleResult.modelContributions |->
                        ensembleResult.modelContributions[i].source],
     consensusScore |-> ensembleResult.consensusScore]

\* the catch block of the route: gatherMarketContext again, then one
\* callGeminiAPI
singleModelFallback(gathered, llmOk) ==
    IF gathered.thrown \/ ~llmOk THEN ServiceUnavailable ELSE SingleModelAnswer

RECURSIVE RecordContributions(_, _, _)
\* modelContributions.forEach(c => updatePerformanceMetrics(c.source, ...)):
\* the Map and the samples passed so far, after the loop
RecordContributions(history, samples, contributions) ==
    IF contributions = <<>> THEN [history |-> history, samples |-> samples]
    ELSE LET c == Head(contributions)
             had == IF c.source \in DOMAIN samples THEN samples[c.source] ELSE <<>>
             metrics == Metrics(c.processingTime, c.confidence, Len(had) + 1)
         IN  RecordContributions(
                 updatePerformanceMetrics(history, c.source, metrics),
                 [m \in DOMAIN samples \cup {c.source} |->
                     IF m = c.source THEN Append(had, metrics) ELSE samples[m]],
                 Tail(contributions))

\* the handler up to await generateEnsembleResponse, or to its answer when
\* the message is rejected or gatherMarketContext threw
PostEnhanced(body, live, news, again, llmOk) ==
    /\ route.pc = "idle"
    /\ pc = "idle"
    /\ LET gathered == gatherMarketContext(live, news)
           intent == determineMessageIntent(body.topics)
           optimalConfig == getOptimalConfiguration(config,
                                                    routeQueryAnalysis(intent))
           received == [route EXCEPT !.valid = body.valid,
                                     !.message = body.query,
                                     !.strategy = body.aiStrategy]
       IN  route' =
             IF ~body.valid
             THEN [received EXCEPT !.pc = "answered", !.answer = BadRequest]
             ELSE IF gathered.thrown
             THEN [received EXCEPT !.pc = "answered",
                     !.answer = singleModelFallback(gatherMarketContext(again, news),
                                                    llmOk)]
             ELSE [received EXCEPT !.pc = "ensemble",
                     !.enabledModels = optimalConfig.enabledModels,
                     !.context = gathered.context,
                     !.options = modelOptions(optimalConfig, body.aiStrategy)]
    /\ UNCHANGED <<ensembleVars, managerVars, strategyVars, localVars, callVars>>

\* multiModelService.generateEnsembleResponse(message, marketContext,
\* modelOptions)
CallEnsemble ==
    /\ route.pc = "ensemble"
    /\ Call(route.message, route.context, route.options)

\* the handler after await generateEnsembleResponse: the performance
\* metrics of every contribution, then res.json; the catch block when the
\* call threw
RespondEnhanced(again, news, llmOk) ==
    /\ route.pc = "ensemble"
    /\ pc = "done"
    /\ IF result.kind = "thrown"
       THEN /\ route' = [route EXCEPT !.pc = "answered",
                           !.answer = singleModelFallback(
                                          gatherMarketContext(again, news), llmOk)]
            /\ UNCHANGED managerVars
       ELSE LET recorded == RecordContributions(performanceHistory, appended,
                                                result.modelContributions)
            IN  /\ performanceHistory' = recorded.history
                /\ appended' = recorded.samples
                /\ ret' = Returned("", Undefined)
                /\ route' = [route EXCEPT !.pc = "answered",
                                          !.answer = EnsembleAnswer(result)]
    /\ UNCHANGED <<ensembleVars, config, strategyVars, localVars, callVars>>

\* GET /models/performance: getModelPerformance(key) for every key of
\* config.models
GetModelsPerformance ==
    /\ ret' = Returned("/models/performance",
                       [key \in DOMAIN config.models |->
                           getModelPerformance(performanceHistory, key)])
    /\ UNCHANGED <<ensembleVars, performanceHistory, appended, config>>
    /\ UNCHANGED <<strategyVars, routeVars, localVars, callVars>>

RouteNext ==
    \/ \E body \in Bodies, live \in BOOLEAN, news \in 0..MaxNews,
          again \in BOOLEAN, llmOk \in BOOLEAN :
          PostEnhanced(body, live, news, again, llmOk)
    \/ CallEnsemble
    \/ \E a \in Analyzers : HfResponse(a)
    \/ \E a \in Analyzers : HfNetworkError(a)
    \/ \E a \in Analyzers : HfTimeout(a)
    \/ \E a \in Analyzers : HfBodyOk(a)
    \/ \E a \in Analyzers : HfBodyFail(a)
    \/ \E ok \in BOOLEAN : GeminiAnswer(ok)
    \/ AllSettled
    \/ \E ok \in BOOLEAN : SynthesisAnswer(ok)
    \/ \E again \in BOOLEAN, news \in 0..MaxNews, llmOk \in BOOLEAN :
          RespondEnhanced(again, news, llmOk)
    \/ GetModelsPerformance

RouteSpec == Init /\ [][RouteNext]_vars

(***************************************************************************)
(* callHuggingFaceModel: one call, its abort timer and its request.        *)
(*   timer  none, armed (setTimeout), cleared (clearTimeout), fired        *)
(*   fetch  none, pending, responded, rejected, aborted                    *)
(*   body   none, reading (response.json(), response.text()), done, failed *)
(***************************************************************************)
\* HF_MODELS, the endpoints the analyzers call
HF_MODELS ==
    {"ProsusAI/finbert", "ElKulako/cryptobert",
     "facebook/blenderbot-400M-distill",
     "cardiffnlp/twitter-roberta-base-sentiment-latest"}

\* what the analyzers pass as input
CallInputs == {"query", "context text", "technical summary"}

\* response.status
Statuses == {200, 429, 503}

TimedOut == "Request timed out after 30 seconds"
ReturnedJson(score) == [kind |-> "returned", json |-> score]

\* the timer's callback with no controller: the call stops waiting and
\* throws, the fetch goes on
abortOnTimeout_Abandon(c) ==
    IF c.fetch = "pending"
    THEN [c EXCEPT !.timer = "fired", !.pc = "threw",
                   !.outcome = Thrown(TimedOut)]
    ELSE [c EXCEPT !.timer = "fired"]

\* the timer's callback, controller.abort(): a pending fetch is aborted and
\* rejects with AbortError, which the catch block rethrows as the timeout
\* error; after the fetch has rejected there is nothing to abort
abortOnTimeout(c) ==
    IF c.fetch = "pending"
    THEN [c EXCEPT !.timer = "fired", !.fetch = "aborted", !.pc = "threw",
                   !.outcome = Thrown(TimedOut)]
    ELSE [c EXCEPT !.timer = "fired"]

\* callHuggingFaceModel(modelName, input) up to await fetch
CallHuggingFaceModel(modelName, input) ==
    /\ call.pc = "idle"
    /\ call' = IF ~apiKey
               THEN [call EXCEPT !.pc = "threw", !.modelName = modelName,
                                 !.input = input,
                                 !.outcome = Thrown("HUGGINGFACE_API_KEY is not configured")]
               ELSE [call EXCEPT !.pc = "fetch", !.modelName = modelName,
                                 !.input = input, !.timer = "armed",
                                 !.fetch = "pending"]
    /\ UNCHANGED <<ensembleVars, managerVars, strategyVars, routeVars, localVars>>

\* the response arrives: clearTimeout, then response.json() of a 2xx
\* response or response.text() of any other
FetchResponds(status) ==
    /\ call.fetch = "pending"
    /\ call' = [call EXCEPT !.fetch = "responded", !.timer = "cleared",
                            !.status = status, !.body = "reading",
                            !.pc = IF status = 200 THEN "json" ELSE "text"]
    /\ UNCHANGED <<ensembleVars, managerVars, strategyVars, routeVars, localVars>>

\* fetch rejects (network error): the catch block rethrows the error; the
\* timer is not cleared
FetchRejects ==
    /\ call.fetch = "pending"
    /\ call' = [call EXCEPT !.fetch = "rejected", !.pc = "threw",
                            !.outcome = Thrown("fetch failed")]
    /\ UNCHANGED <<ensembleVars, managerVars, strategyVars, routeVars, localVars>>

\* 30 seconds after setTimeout the timer fires
TimerFires ==
    /\ call.timer = "armed"
    /\ call' = abortOnTimeout(call)
    /\ UNCHANGED <<ensembleVars, managerVars, strategyVars, routeVars, localVars>>

\* the reading of the response ends: response.json() returns the parsed
\* body or throws; response.text() returns and the HTTP error is thrown, or
\* throws
BodyRead(ok, score) ==
    /\ call.body = "reading"
    /\ call' = [call EXCEPT
                   !.body = IF ok THEN "done" ELSE "failed",
                   !.pc = IF ok /\ call.pc = "json" THEN "returned" ELSE "threw",
                   !.outcome = IF ~ok THEN Thrown("body read failed")
                               ELSE IF call.pc = "json" THEN ReturnedJson(score)
                               ELSE Thrown("HuggingFace API error")]
    /\ UNCHANGED <<ensembleVars, managerVars, strategyVars, routeVars, localVars>>

CallNext ==
    \/ \E modelName \in HF_MODELS, input \in CallInputs :
          CallHuggingFaceModel(modelName, input)
    \/ \E status \in Statuses : FetchResponds(status)
    \/ FetchRejects
    \/ TimerFires
    \/ \E ok \in BOOLEAN, score \in Scores : BodyRead(ok, score)

CallSpec == Init /\ [][CallNext]_vars

(***************************************************************************)
(* The local fallbacks of the service, applied to any input.               *)
(***************************************************************************)
\* the words of cryptoPositive, and of cryptoNegative
LexiconSize == 6

\* data.priceChange24h, in hundredths of a percent
PriceChanges ==
    {-750, -501, -500, -499, -201, -200, -199, -100, 0, 199, 200, 201, 499,
     500, 501, 750}

LocalInputs ==
    {[kind |-> "query", query |-> [pos |-> p, neg |-> n]] :
        p \in 0..LexiconSize, n \in 0..LexiconSize}
    \cup {[kind |-> "data", data |-> [change |-> c, volume |-> 250]] :
            c \in PriceChanges}

\* getCryptoKeywordAnalysis(query, context, startTime)
ApplyCryptoKeywordAnalysis ==
    /\ localIn.kind = "query"
    /\ localOut = NoValue
    /\ \E time \in Latencies :
          localOut' = getCryptoKeywordAnalysis(localIn.query, time)
    /\ UNCHANGED <<ensembleVars, managerVars, strategyVars, routeVars, localIn, callVars>>

\* getRuleBasedTechnicalAnalysis(data, query, startTime)
ApplyRuleBasedTechnicalAnalysis ==
    /\ localIn.kind = "data"
    /\ localOut = NoValue
    /\ \E time \in Latencies :
          localOut' = getRuleBasedTechnicalAnalysis(localIn.data, time)
    /\ UNCHANGED <<ensembleVars, managerVars, strategyVars, routeVars, localIn, callVars>>

LocalInit ==
    /\ apiKey = TRUE
    /\ EnsembleIdle
    /\ ManagerNew
    /\ StrategyIdle
    /\ RouteIdle
    /\ localIn \in LocalInputs
    /\ localOut = NoValue
    /\ CallIdle

LocalNext ==
    \/ ApplyCryptoKeywordAnalysis
    \/ ApplyRuleBasedTechnicalAnalysis

LocalSpec == LocalInit /\ [][LocalNext]_vars

(***************************************************************************)
(* getTechnicalAnalysis on its own: calls with the flagged analyzers off.  *)
(***************************************************************************)
TechnicalOnly ==
    {o \in Options : /\ ~o.useGemini /\ ~o.useFinancialBert
                     /\ ~o.useCryptoBert /\ ~o.useNewsAnalysis}

TechnicalNext ==
    \/ \E q \in Queries, c \in TechnicalContexts, o \in TechnicalOnly : Call(q, c, o)
    \/ HfResponse("technical")
    \/ HfNetworkError("technical")
    \/ HfTimeout("technical")
    \/ HfBodyOk("technical")
    \/ HfBodyFail("technical")
    \/ AllSettled
    \/ \E ok \in BOOLEAN : SynthesisAnswer(ok)

TechnicalSpec == Init /\ [][TechnicalNext]_vars

\* what the code's scheduling guarantees: an armed abort timer fires, and the
\* continuation of a settled await runs; no backend is obliged to answer
LiveSpec ==
    /\ Spec
    /\ WF_vars(AllSettled)
    /\ \A a \in Analyzers : WF_vars(HfTimeout(a))

(***************************************************************************)
(* Properties of generateEnsembleResponse.                                 *)
(***************************************************************************)
Done == pc = "done"
Contributions == result.modelContributions
AllOptions ==
    /\ request.options.useGemini
    /\ request.options.useFinancialBert
    /\ request.options.useCryptoBert
    /\ request.options.useNewsAnalysis

\* the analyzer a response comes from, by its source name
AnalyzerOf(source) ==
    CASE source = "Gemini-2.0-Flash" -> "gemini"
      [] source = "FinBERT" -> "finbert"
      [] source \in {"CryptoBERT", "Crypto-Keywords"} -> "cryptobert"
      [] source = "News-RoBERTa" -> "news"
      [] source \in {"Technical-Analysis", "Technical-Analyzer",
                     "Rule-Based-Technical"} -> "technical"

EntriesOf(a) ==
    {i \in DOMAIN Contributions : AnalyzerOf(Contributions[i].source) = a}

HasText(text, str) == \E i \in DOMAIN text : text[i].text = str

\* x = y for finite quotients
QEq(x, y) == x.n * y.d = y.n * x.d

\* C1: when every dispatched analyzer failed, generateEnsembleResponse
\* returns (it does not throw) an EnsembleResponse with no contribution,
\* consensusScore 0 and the fixed, non-empty apology as finalResponse.
C1_AllFailedDegraded ==
    (Done /\ apiKey /\ \A a \in Analyzers : analyzer[a].st # "fulfilled")
    => /\ result.kind = "returned"
       /\ result.modelContributions = <<>>
       /\ result.consensusScore.n = 0 /\ result.consensusScore.d # 0
       /\ result.finalResponse = ApologyText
       /\ Len(result.finalResponse) > 0

C1_Witness ==
    /\ Done /\ apiKey
    /\ analyzer["gemini"].st = "rejected"
    /\ analyzer["technical"].st = "rejected"
    /\ \A a \in Analyzers : analyzer[a].st # "fulfilled"
    /\ result.kind = "returned"

\* C2: with no API key configured, generateEnsembleResponse throws the
\* configuration error to its caller instead of returning a payload.
C2_ConfigErrorThrown ==
    (Done /\ ~apiKey) => result.kind = "thrown"

\* C3: whatever subset of the analyzers failed and in whatever order they
\* completed, modelContributions holds exactly one entry (the analyzer's own
\* value) for each analyzer that succeeded and none for one that failed.
C3_NoResultDropped ==
    (Done /\ apiKey /\ result.kind = "returned")
    => \A a \in Analyzers :
          IF analyzer[a].st = "fulfilled"
          THEN /\ Cardinality(EntriesOf(a)) = 1
               /\ \A i \in EntriesOf(a) : Contributions[i] = analyzer[a].value
          ELSE EntriesOf(a) = {}

C3_Witness ==
    /\ Done /\ apiKey
    /\ analyzer["gemini"].st = "rejected"
    /\ analyzer["news"].st = "rejected"
    /\ analyzer["finbert"].st = "fulfilled"
    /\ analyzer["cryptobert"].st = "fulfilled"
    /\ Len(Contributions) = 3

\* C5: the consensusScore of a returned response is in [0.1, 0.95] with two
\* or more contributions, 0.5 with exactly one and 0 with none.
C5_ConsensusRange ==
    (Done /\ result.kind = "returned")
    => LET score == result.consensusScore
       IN  /\ \A i \in DOMAIN Contributions :
                Contributions[i].confidence \in 0..1000
           /\ score.d > 0
           /\ Len(Contributions) >= 2
                => QLeq(Quot(1, 10), score) /\ QLeq(score, Quot(19, 20))
           /\ Len(Contributions) = 1 => QEq(score, Quot(1, 2))
           /\ Len(Contributions) = 0 => score.n = 0

C5_Witness ==
    /\ Done /\ result.kind = "returned"
    /\ Len(Contributions) >= 2
    /\ QEq(result.consensusScore, Quot(19, 20))

\* the contributions of highest confidence
TopContributions ==
    {i \in DOMAIN Contributions :
        \A j \in DOMAIN Contributions :
            Contributions[j].confidence <= Contributions[i].confidence}

\* C7: when the synthesis call failed and an analyzer succeeded, the call
\* returns normally; finalResponse is the non-empty text of the local
\* fallback synthesis and contains the source name of the contribution of
\* highest confidence.
C7_FallbackSynthesis ==
    (Done /\ synthCall = "threw")
    => /\ result.kind = "returned"
       /\ Len(Contributions) >= 1
       /\ Len(result.finalResponse) > 0
       /\ \E i \in DOMAIN result.finalResponse :
             result.finalResponse[i].label = "primary"
       /\ \A i \in TopContributions :
             HasText(result.finalResponse, Contributions[i].source)

\* the synthesis failed and the primary response is not the top one
C7_Witness ==
    /\ Done /\ synthCall = "threw"
    /\ Len(Contributions) >= 2
    /\ \E i \in DOMAIN result.finalResponse, j \in TopContributions :
          /\ result.finalResponse[i].label = "primary"
          /\ \A k \in TopContributions :
                result.finalResponse[i].text # Contributions[k].source

\* C8: with all five analyzers dispatched, when only the crypto-sentiment
\* backend fails the analyzer contributes its keyword fallback:
\* modelContributions has 5 entries and consensusScore is the score of those
\* 5 confidences.
C8_CryptoFallbackKeepsFive ==
    (/\ Done /\ apiKey /\ AllOptions
     /\ analyzer["cryptobert"].threw
     /\ \A a \in Analyzers \ {"cryptobert"} : analyzer[a].st = "fulfilled")
    => /\ result.kind = "returned"
       /\ Len(Contributions) = 5
       /\ Contributions[3].source = "Crypto-Keywords"
       /\ Contributions[3] = analyzer["cryptobert"].value
       /\ result.consensusScore = calculateConsensusScore(Contributions)

C8_Witness ==
    /\ Done /\ apiKey /\ AllOptions
    /\ analyzer["cryptobert"].threw
    /\ \A a \in Analyzers \ {"cryptobert"} :
          analyzer[a].st = "fulfilled" /\ ~analyzer[a].threw
    /\ Len(Contributions) = 5

\* the place of an analyzer in the dispatch order
DispatchIndex(a) == CHOOSE i \in DOMAIN AnalyzerOrder : AnalyzerOrder[i] = a

\* C17: modelContributions lists the analyzers that succeeded in the
\* dispatch order (general reasoning, financial sentiment, crypto
\* sentiment, news, technical), whatever the order in which they completed.
C17_DispatchOrder ==
    (Done /\ apiKey /\ result.kind = "returned")
    => /\ {AnalyzerOf(Contributions[i].source) : i \in DOMAIN Contributions}
            = {a \in Analyzers : analyzer[a].st = "fulfilled"}
       /\ \A i, j \in DOMAIN Contributions :
             i < j => DispatchIndex(AnalyzerOf(Contributions[i].source))
                      < DispatchIndex(AnalyzerOf(Contributions[j].source))

\* the analyzer that completed last is listed first
C17_Witness ==
    /\ Done /\ apiKey /\ result.kind = "returned"
    /\ Len(Contributions) >= 3
    /\ lastSettled = AnalyzerOf(Contributions[1].source)

\* the source names a synthesis text carries under this label
Labelled(text, label) ==
    {text[i].text : i \in {k \in DOMAIN text : text[k].label = label}}

\* C19: in the local fallback synthesis the primary response is one of
\* highest confidence among the contributions, and the supporting insights
\* are exactly the other contributions, the primary not among them.
C19_PrimaryIsTop ==
    (Done /\ synthCall = "threw" /\ result.kind = "returned")
    => LET primary == Labelled(result.finalResponse, "primary")
           supporting == Labelled(result.finalResponse, "supporting")
           sources == {Contributions[i].source : i \in DOMAIN Contributions}
       IN  /\ \E i \in TopContributions : primary = {Contributions[i].source}
           /\ supporting = sources \ primary

\* C20: for a context object the technical analyzer never fails: with no
\* topCoin it returns the insufficient-data response (confidence 0.3) and
\* calls no backend; with one it returns the backend's interpretation
\* (0.75) when the call succeeds and the rule-based summary (0.6) when the
\* call fails or times out.
C20_TechnicalNeverFails ==
    (pc # "idle" /\ apiKey /\ request.context.shape # "null")
    => LET t == analyzer["technical"]
           hasTopCoin == request.context.shape \in {"full", "oddField"}
       IN  /\ t.st \in {"pending", "fulfilled"}
           /\ ~hasTopCoin
                => /\ t.st = "fulfilled"
                   /\ t.value.source = "Technical-Analysis"
                   /\ t.value.confidence = 300
                   /\ t.wait = 0 /\ t.body = 0 /\ ~t.threw
           /\ (hasTopCoin /\ t.st = "fulfilled")
                => IF t.threw
                   THEN /\ t.value.source = "Rule-Based-Technical"
                        /\ t.value.confidence = 600
                   ELSE /\ t.value.source = "Technical-Analyzer"
                        /\ t.value.confidence = 750

\* C27: with the API key configured and a context object, the call returns
\* at least one contribution whichever backends failed, the technical
\* analyzer's at least, and never the apology result of no contribution.
C27_SomeContribution ==
    (Done /\ apiKey /\ request.context.shape # "null")
    => /\ result.kind = "returned"
       /\ Len(result.modelContributions) >= 1
       /\ result # noValidResponse

\* C4: every backend call is bounded by a deadline, so a call that was
\* dispatched eventually returns even if backends never answer.
C4_AlwaysReturns == (pc = "awaitAll") ~> (pc = "done")

\* C26: when the timeout of a call of callHuggingFaceModel is reached while
\* its request is pending, the request is aborted and the call throws the
\* timeout error; once the call has returned or thrown, no request it
\* issued is outstanding.
C26_TimeoutAborts ==
    /\ [][(call.timer = "armed" /\ call'.timer = "fired" /\ call.fetch = "pending")
          => /\ call'.fetch = "aborted"
             /\ call'.pc = "threw"
             /\ call'.outcome = Thrown(TimedOut)]_vars
    /\ [](call.pc \in {"returned", "threw"}
          => (call.fetch # "pending" /\ call.body # "reading"))

\* the timer fired on a pending request: aborted, and the call threw the
\* timeout error
C26_Witness ==
    /\ call.timer = "fired"
    /\ call.fetch = "aborted"
    /\ call.pc = "threw"
    /\ call.outcome = Thrown(TimedOut)

(***************************************************************************)
(* Properties of the weighting functions.                                  *)
(***************************************************************************)
SumsToOne(w) ==
    LET total == JsSum(w)
    IN  IsFinite(total) /\ total.n = total.d

\* C6: for each of the six strategies and every non-empty list of responses
\* with confidence in [0,1] and processingTime >= 0, the weight vector has
\* the length of the list and sums to 1.
C6_WeightsSumToOne ==
    weighOut.by = "weightingFunction"
    => /\ Len(weighOut.weights) = Len(weighIn)
       /\ SumsToOne(weighOut.weights)

\* the same JavaScript number (NaN taken as equal to NaN)
SameNumber(x, y) ==
    \/ IsNaN(x) /\ IsNaN(y)
    \/ ~IsFinite(x) /\ ~IsFinite(y) /\ ~IsNaN(x) /\ ~IsNaN(y)
    \/ IsFinite(x) /\ IsFinite(y) /\ QEq(x, y)

\* C15: the weights generateEnsembleResponse computes over the succeeded
\* responses are those of the weighting function of the strategy it was
\* called with; under performance they come from the accuracy table keyed
\* by source name.
C15_WeightsOfNamedStrategy ==
    (pc \in {"synth", "done"} /\ weights # <<>>)
    => LET named == weightingFunction(request.options.weightingStrategy,
                                      modelResponses)
       IN  /\ DOMAIN weights = DOMAIN named
           /\ \A i \in DOMAIN weights : SameNumber(weights[i], named[i])

AllEqualConfidence(responses) ==
    \A i, j \in DOMAIN responses :
        responses[i].confidence = responses[j].confidence

\* C12: applied to n >= 1 responses that all have the same confidence c in
\* [0,1], the confidence strategy (the strategy function and the service's
\* calculateModelWeights alike) returns n weights, each equal to 1/n.
C12_EqualConfidenceEqualWeights ==
    (/\ weighOut # NoWeighting
     /\ weighOut.name = "confidence"
     /\ AllEqualConfidence(weighIn))
    => /\ Len(weighOut.weights) = Len(weighIn)
       /\ \A i \in DOMAIN weighOut.weights :
             /\ IsFinite(weighOut.weights[i])
             /\ weighOut.weights[i].n * Len(weighIn) = weighOut.weights[i].d

(***************************************************************************)
(* Properties of the local fallbacks.                                      *)
(***************************************************************************)
\* C13: the keyword fallback returns "positive" when the positive hits
\* exceed the negative ones, "negative" when the negative hits exceed the
\* positive ones and "neutral" otherwise; a non-neutral result has a
\* confidence above 0.5 and at most 0.8.
C13_KeywordSentiment ==
    (localIn.kind = "query" /\ localOut # NoValue)
    => LET hits == localIn.query
       IN  /\ localOut.source = "Crypto-Keywords"
           /\ hits.pos > hits.neg => localOut.detail = "positive"
           /\ hits.neg > hits.pos => localOut.detail = "negative"
           /\ hits.neg = hits.pos => localOut.detail = "neutral"
           /\ localOut.detail # "neutral"
                => localOut.confidence > 500 /\ localOut.confidence <= 800

\* "to the moon, hodl strong": 2 positive hits, no negative one
C13_Witness ==
    /\ localIn.kind = "query"
    /\ localIn.query = [pos |-> 2, neg |-> 0]
    /\ localOut # NoValue
    /\ localOut.detail = "positive"
    /\ localOut.confidence = 700

\* C14: the rule-based fallback puts the 24h change p in exactly one class:
\* strong bullish for p > 5, moderate bullish for 2 < p <= 5, sideways for
\* -2 <= p <= 2, moderate bearish for -5 <= p < -2, strong bearish for
\* p < -5; its confidence is 0.6.
C14_RuleBasedClasses ==
    (localIn.kind = "data" /\ localOut # NoValue)
    => LET p == localIn.data.change
       IN  /\ localOut.source = "Rule-Based-Technical"
           /\ localOut.confidence = 600
           /\ (p > 500) <=> (localOut.detail = "Strong bullish momentum detected")
           /\ (200 < p /\ p <= 500) <=> (localOut.detail = "Moderate upward movement")
           /\ (-200 <= p /\ p <= 200) <=> (localOut.detail = "Sideways price action")
           /\ (-500 <= p /\ p < -200)
                <=> (localOut.detail = "Moderate downward pressure")
           /\ (p < -500) <=> (localOut.detail = "Strong bearish pressure")

\* a change of exactly 5 percent is moderate, not strong
C14_Witness ==
    /\ localIn.kind = "data"
    /\ localIn.data.change = 500
    /\ localOut # NoValue
    /\ localOut.detail = "Moderate upward movement"

(***************************************************************************)
(* Properties of the performance history.                                  *)
(***************************************************************************)
\* C9: after any sequence of updatePerformanceMetrics calls every model's
\* history holds at most 100 entries, and they are the samples appended
\* last, in arrival order.
C9_BoundedRecentHistory ==
    /\ DOMAIN performanceHistory = DOMAIN appended
    /\ \A m \in DOMAIN performanceHistory :
          LET h == performanceHistory[m]
              a == appended[m]
              k == Min(MAX_HISTORY, Len(a))
          IN  /\ Len(h) <= MAX_HISTORY
              /\ h = SubSeq(a, Len(a) - k + 1, Len(a))

\* a history that has dropped its two oldest samples
C9_Witness ==
    \E m \in DOMAIN performanceHistory :
        /\ Len(appended[m]) = MAX_HISTORY + 2
        /\ Len(performanceHistory[m]) = MAX_HISTORY
        /\ performanceHistory[m][1].timestamp = 3

NumberFields == {"averageResponseTime", "averageConfidence", "successRate"}

\* C10: getModelPerformance does not throw and returns no NaN: the no-data
\* marker for a model with no recorded history, and otherwise averages with
\* totalRequests equal to the length of the history.
C10_PerformanceDefined ==
    ret.value # Undefined
    => LET v == ret.value
           m == ret.model
       IN  /\ v.kind # "thrown"
           /\ IF m \notin DOMAIN performanceHistory
              THEN v = NoData
              ELSE /\ v.kind = "performance"
                   /\ v.totalRequests = Len(performanceHistory[m])
                   /\ v.totalRequests > 0
                   /\ \A f \in NumberFields : IsFinite(v[f])

\* asked about a model never updated while another one has a history
C10_Witness ==
    /\ ret.value = NoData
    /\ ret.model \notin DOMAIN performanceHistory
    /\ DOMAIN performanceHistory # {}

\* C22: updatePerformanceMetrics(m, sample) appends the sample to the
\* history of m and at most drops the oldest entry of m; the histories of
\* the other models, the retained entries of m and their order, and the
\* configuration are as before the call.
C22_AppendAndTrimOnly ==
    [][appended' # appended
       => \E m \in DOMAIN appended' :
             LET before == IF m \in DOMAIN performanceHistory
                           THEN performanceHistory[m] ELSE <<>>
                 sample == appended'[m][Len(appended'[m])]
             IN  /\ DOMAIN performanceHistory' = DOMAIN performanceHistory \cup {m}
                 /\ \A o \in DOMAIN performanceHistory \ {m} :
                       performanceHistory'[o] = performanceHistory[o]
                 /\ \/ performanceHistory'[m] = Append(before, sample)
                    \/ performanceHistory'[m] = Tail(Append(before, sample))
                 /\ config' = config]_vars

\* a full history has dropped its oldest entry while another model has a
\* history of its own
C22_Witness ==
    /\ "gemini" \in DOMAIN performanceHistory
    /\ Len(appended["gemini"]) > MAX_HISTORY
    /\ Len(performanceHistory["gemini"]) = MAX_HISTORY
    /\ "Gemini-2.0-Flash" \in DOMAIN performanceHistory
    /\ config = AI_ENSEMBLE_CONFIG

\* the threshold a sample of this model has to exceed: its
\* minimumConfidenceThreshold, 0.5 for a name with no entry in config.models
SuccessThreshold(modelName) ==
    IF modelName \in DOMAIN config.models
    THEN config.models[modelName].minimumConfidenceThreshold ELSE 500

\* C30: for a model with a non-empty history, the successRate of
\* getModelPerformance is the fraction of its recorded samples whose
\* confidence is strictly greater than the model's threshold.
C30_SuccessRateIsFraction ==
    (ret.model \in QueriedNames /\ ret.value.kind = "performance")
    => LET h == performanceHistory[ret.model]
           passed == {i \in DOMAIN h :
                        h[i].confidence > SuccessThreshold(ret.model)}
       IN  ret.value.successRate = Round(1000 * Cardinality(passed), Len(h))

(***************************************************************************)
(* Properties of the configuration.                                        *)
(***************************************************************************)
OptimalReturned == ret.model = "getOptimalConfiguration"
Urgent(q) == q.urgency = "high"
Complex(q) == ~Urgent(q) /\ q.complexity = "high"
Plain(q) == ~Urgent(q) /\ q.complexity # "high"

\* the precedence of urgency over complexity in what getOptimalConfiguration
\* returned for q
UrgencyThenComplexity(q, r) ==
    /\ Urgent(q) => /\ r.strategy = "fastResponse"
                    /\ r.timeout = 15000
                    /\ Len(r.enabledModels) <= 2
    /\ Complex(q) => /\ r.strategy = "highAccuracy"
                     /\ r.timeout = 60000

\* C23 as stated: fastResponse, 15000 ms and at most two models when the
\* urgency is high; otherwise highAccuracy and 60000 ms when the complexity
\* is high; otherwise confidence; and gemini is in the enabled set when the
\* static table enables it.
C23_OtherwiseConfidence ==
    OptimalReturned
    => /\ UrgencyThenComplexity(ret.argument, ret.value)
       /\ Plain(ret.argument) => ret.value.strategy = "confidence"
       /\ StaticEnabled["gemini"] => Has(ret.value.enabledModels, "gemini")

\* C23, amended: fastResponse, 15000 ms and at most two models when the
\* urgency is high; otherwise highAccuracy and 60000 ms when the complexity
\* is high; otherwise confidence for an educational query and the
\* defaultStrategy of the manager's configuration for any other; and gemini
\* is in the enabled set when the manager's configuration enables it.
C23_OtherwiseDefaultStrategy ==
    OptimalReturned
    => /\ UrgencyThenComplexity(ret.argument, ret.value)
       /\ Plain(ret.argument)
          => ret.value.strategy = IF ret.argument.isEducationalQuery
                                  THEN "confidence" ELSE config.defaultStrategy
       /\ ("gemini" \in DOMAIN config.models /\ config.models["gemini"].enabled)
          => Has(ret.value.enabledModels, "gemini")

\* a query that is neither urgent, complex nor educational, asked of a
\* manager whose default strategy was updated to equal
C23_Witness ==
    /\ OptimalReturned
    /\ Plain(ret.argument)
    /\ ~ret.argument.isEducationalQuery
    /\ config.defaultStrategy = "equal"
    /\ ret.value.strategy = "equal"
    /\ Has(ret.value.enabledModels, "gemini")

RECURSIVE CostOfSet(_, _)
\* the sum of costPerRequest over a set of keys of models
CostOfSet(models, keys) ==
    IF keys = {} THEN 0
    ELSE LET key == CHOOSE k \in keys : TRUE
         IN  models[key].costPerRequest + CostOfSet(models, keys \ {key})

\* C24: the expectedCost getOptimalConfiguration returns is the sum of
\* costPerRequest over the models of the enabled set it returns, each model
\* counted once and no disabled model counted.
C24_CostOfReturnedSet ==
    OptimalReturned
    => ret.value.expectedCost =
          CostOfSet(config.models,
                    {ret.value.enabledModels[i] : i \in DOMAIN ret.value.enabledModels})

Valid(cfg) == validateConfiguration(cfg).valid

\* C28: a call of updateConfiguration that returns false leaves the
\* configuration as it was, and a call that starts from a configuration
\* that passes validateConfiguration leaves one that passes it.
C28_UpdateKeepsValid ==
    [][ret'.model = "updateConfiguration"
       => /\ ~ret'.value => config' = config
          /\ Valid(config) => Valid(config')]_vars

\* C29: a call of importConfiguration returns true only when the parsed
\* configuration passes validation, and then installs it; when the parsed
\* configuration does not pass, the call returns false and the
\* configuration is as it was.
C29_ImportValidatesNew ==
    [][(ret'.model = "importConfiguration" /\ ret'.argument.syntax)
       => LET newConfig == JSONparse(ret'.argument)
          IN  /\ ret'.value => (Valid(newConfig) /\ config' = newConfig)
              /\ ~Valid(newConfig) => (~ret'.value /\ config' = config)]_vars

(***************************************************************************)
(* Properties of POST /enhanced.                                           *)
(***************************************************************************)
Answered == route.pc = "answered"

C16_AfterEverySettled ==
    [][(synthCall' # synthCall \/ performanceHistory' # performanceHistory)
       => \A a \in Analyzers : analyzer[a].st # "pending"]_vars

\* the route recorded the metrics of two analyzers after the synthesis
C16_Witness ==
    /\ Answered
    /\ synthCall \in {"returned", "threw"}
    /\ Cardinality(DOMAIN performanceHistory) = 2
    /\ \A a \in Analyzers : analyzer[a].st # "pending"

\* the key of config.models that stands for an analyzer
ConfigKey(a) ==
    CASE a = "gemini" -> "gemini"
      [] a = "finbert" -> "finbert"
      [] a = "cryptobert" -> "cryptobert"
      [] a = "news" -> "newsRoberta"
      [] a = "technical" -> "technicalAnalyzer"

\* C18: the analyzers generateEnsembleResponse dispatches are exactly those
\* enabled for the request, the enabledModels of getOptimalConfiguration
\* from which the route derives the options; an analyzer that is not
\* enabled, the technical one included, is not called.
C18_OnlyEnabledDispatched ==
    (route.pc \in {"ensemble", "answered"} /\ pc # "idle" /\ apiKey)
    => \A a \in Analyzers :
          (analyzer[a].st # "none") <=> Has(route.enabledModels, ConfigKey(a))

\* C21: after the route answered an ensemble request with a contribution
\* from the analyzer of a configured model, getModelPerformance called with
\* that model's configuration key, as GET /models/performance calls it,
\* reports at least one request and not the no-data marker.
C21_RecordedUnderConfigKey ==
    (/\ Answered
     /\ route.answer.kind = "ensemble"
     /\ ret.model = "/models/performance")
    => \A a \in Analyzers :
          EntriesOf(a) # {}
          => /\ ret.value[ConfigKey(a)] # NoData
             /\ ret.value[ConfigKey(a)].totalRequests >= 1

SameWeights(w, v) ==
    /\ DOMAIN w = DOMAIN v
    /\ \A i \in DOMAIN w : SameNumber(w[i], v[i])

\* C25: when fewer analyzers succeeded than the requireMinimumModels of the
\* strategy the request selected, the weights generateEnsembleResponse
\* computes are those of the fallbackStrategy that strategy declares, by the
\* orchestrator's own rule for that name or by the weighting function the
\* table gives it.
C25_FallbackBelowMinimum ==
    (/\ pc \in {"synth", "done"}
     /\ weights # <<>>
     /\ request.options.weightingStrategy \in StrategyNames
     /\ Len(modelResponses)
           < requireMinimumModels(request.options.weightingStrategy))
    => LET substitute == fallbackStrategy(request.options.weightingStrategy)
       IN  \/ SameWeights(weights,
                          calculateModelWeights(modelResponses, substitute))
           \/ SameWeights(weights, weightingFunction(substitute, modelResponses))

====
